---- MODULE Spec2Model ----
(***************************************************************************)
(* cmdn: run a shell command, then notify (sound and/or a templated        *)
(* post-command), then exit with the command's exit code.                  *)
(* Model of src/cmdn.js.  Text is a sequence of one-character strings.     *)
(***************************************************************************)
EXTENDS Integers, Sequences, FiniteSets, TLC

VARIABLES
    args,         \* process.argv.slice(2): a sequence of words
    platform,     \* os.platform()
    configFile,   \* the content of cmdn-config.json
    startConfig,  \* history: what loadConfig would have returned at process start
    writes,       \* how often another process has rewritten the config file
    pc,           \* where main() stands
    result,       \* main's `result`, the CommandResult of the main command
    proc,         \* the children of executeCommand, by caller: "main", "post"
    soundCfg,     \* history: the config playNotificationSound loaded
    soundP,       \* the promise of the platform's play function
    players,      \* the audio-player processes spawned so far, in spawn order
    playerIndex,  \* playLinuxSound's playerIndex
    soundFile,    \* history: what findSoundFile found
    postCfg,      \* history: the config runConfiguredCommand loaded
    procExit,     \* the exit code of the process, once it has exited
    exitRoute,    \* how the process ended
    bounds,       \* the bounds of the exploration (chunks, failures, writes)
    xIn,          \* template expansion on its own: the inputs
    xOut          \* template expansion on its own: the result

vars == <<args, platform, configFile, startConfig, writes, pc, result, proc,
          soundCfg, soundP, players, playerIndex, soundFile, postCfg, procExit,
          exitRoute, bounds, xIn, xOut>>

pipelineVars == <<args, platform, configFile, startConfig, writes, pc, result,
                  proc, soundCfg, soundP, players, playerIndex, soundFile, postCfg,
                  procExit, exitRoute, bounds>>

expandVars == <<xIn, xOut>>

(***************************************************************************)
(* Bounds                                                                  *)
(***************************************************************************)

\* Words on the command line.
MaxArgs == 1

\* Data events of one run, all children and both streams together.
MaxChunks == 1

\* Processes of one run that cannot be launched.
MaxLaunchFailures == 1

\* Rewrites of the config file by other processes during one run.
MaxConfigWrites == 1

\* Data events of one child when executeCommand is explored on its own.
MaxExecChunks == 3

\* Words on the command line when the argument dispatch is explored on its
\* own.
MaxDispatchArgs == 3

\* Pieces a template is put together from.
MaxTemplateParts == 2

\* Pieces a command text or an output is put together from.
MaxValueParts == 2

(***************************************************************************)
(* Text helpers                                                            *)
(***************************************************************************)

\* The literal matched by /\[\[command\]\]/g
CmdToken == <<"[", "[", "c", "o", "m", "m", "a", "n", "d", "]", "]">>

\* The literal matched by /\[\[output\]\]/g
OutToken == <<"[", "[", "o", "u", "t", "p", "u", "t", "]", "]">>

\* White space as String.prototype.trim() sees it (space and line feed here).
IsWhiteSpace(c) == c \in {" ", "\n"}

RECURSIVE TrimStart(_)
TrimStart(s) ==
    IF s # <<>> /\ IsWhiteSpace(Head(s)) THEN TrimStart(Tail(s)) ELSE s

RECURSIVE TrimEnd(_)
TrimEnd(s) ==
    IF s # <<>> /\ IsWhiteSpace(s[Len(s)])
    THEN TrimEnd(SubSeq(s, 1, Len(s) - 1))
    ELSE s

\* String.prototype.trim()
Trim(s) == TrimEnd(TrimStart(s))

\* Array.prototype.join(' ')
RECURSIVE JoinWords(_)
JoinWords(words) ==
    IF words = <<>> THEN <<>>
    ELSE IF Len(words) = 1 THEN Head(words)
    ELSE Head(words) \o <<" ">> \o JoinWords(Tail(words))

\* Does the literal tok occur in s at position i?
MatchAt(s, tok, i) ==
    /\ i + Len(tok) - 1 <= Len(s)
    /\ SubSeq(s, i, i + Len(tok) - 1) = tok

(***************************************************************************)
(* String.prototype.replace(regexp /literal/g, replacementString)          *)
(***************************************************************************)

\* The replacement text of one match: the replacement string with its
\* dollar patterns expanded (the patterns have no capture groups to name, so
\* $1..$99 and $<name> stay as written).
RECURSIVE SubstFrom(_, _, _, _, _)
SubstFrom(matched, str, position, replacement, k) ==
    IF k > Len(replacement) THEN <<>>
    ELSE IF replacement[k] = "$" /\ k < Len(replacement)
    THEN LET nxt == replacement[k + 1]
         IN  IF nxt = "$"
             THEN <<"$">> \o SubstFrom(matched, str, position, replacement, k + 2)
             ELSE IF nxt = "&"
             THEN matched \o SubstFrom(matched, str, position, replacement, k + 2)
             ELSE IF nxt = "`"
             THEN SubSeq(str, 1, position - 1)
                      \o SubstFrom(matched, str, position, replacement, k + 2)
             ELSE IF nxt = "'"
             THEN SubSeq(str, position + Len(matched), Len(str))
                      \o SubstFrom(matched, str, position, replacement, k + 2)
             ELSE <<"$">> \o SubstFrom(matched, str, position, replacement, k + 1)
    ELSE <<replacement[k]>> \o SubstFrom(matched, str, position, replacement, k + 1)

GetSubstitution(matched, str, position, replacement) ==
    SubstFrom(matched, str, position, replacement, 1)

\* Left to right, non-overlapping, every match replaced (the g flag).
RECURSIVE ReplaceFrom(_, _, _, _)
ReplaceFrom(s, tok, replacement, i) ==
    IF i > Len(s) THEN <<>>
    ELSE IF MatchAt(s, tok, i)
    THEN GetSubstitution(tok, s, i, replacement)
             \o ReplaceFrom(s, tok, replacement, i + Len(tok))
    ELSE <<s[i]>> \o ReplaceFrom(s, tok, replacement, i + 1)

ReplaceAll(s, tok, replacement) == ReplaceFrom(s, tok, replacement, 1)

\* The template expansion of runConfiguredCommand: two chained replace calls.
ExpandTemplate(template, command, output) ==
    ReplaceAll(ReplaceAll(template, CmdToken, command), OutToken, output)

(***************************************************************************)
(* Configuration                                                           *)
(***************************************************************************)

\* A text value of the command field.
Str(text) == [kind |-> "string", text |-> text]

\* A value of the command field that is no string (null, a number, an object).
NonString == [kind |-> "nonstring", text |-> <<>>]

\* The field is not in the file.
Missing == [kind |-> "missing", text |-> <<>>]

defaultConfig == [soundEnabled |-> TRUE, runCommand |-> FALSE, command |-> Str(<<>>)]

\* A config file holding a JSON object; a flag is "true", "false" (any truthy
\* or falsy JSON value) or "missing".
JsonFile(sound, run, cmd) ==
    [kind |-> "json", soundEnabled |-> sound, runCommand |-> run, command |-> cmd]

AbsentFile == [kind |-> "absent", soundEnabled |-> "missing",
               runCommand |-> "missing", command |-> Missing]

\* A file JSON.parse throws on.
InvalidFile == [kind |-> "invalid", soundEnabled |-> "missing",
                runCommand |-> "missing", command |-> Missing]

\* { ...defaultConfig, ...JSON.parse(file) }, or defaultConfig when the file
\* is absent or cannot be parsed.
loadConfig(file) ==
    IF file.kind = "json"
    THEN [soundEnabled |-> IF file.soundEnabled = "missing"
                           THEN defaultConfig.soundEnabled
                           ELSE file.soundEnabled = "true",
          runCommand   |-> IF file.runCommand = "missing"
                           THEN defaultConfig.runCommand
                           ELSE file.runCommand = "true",
          command      |-> IF file.command.kind = "missing"
                           THEN defaultConfig.command
                           ELSE file.command]
    ELSE defaultConfig

\* The post-command template the saved configurations hold.
SavedTemplate == CmdToken \o <<" ">> \o OutToken

\* What runConfiguration writes through saveConfig: both flags as booleans and
\* command a string, '' when no command was asked for.
SavedConfigs ==
    { JsonFile(s, "false", Str(<<>>)) : s \in {"true", "false"} }
      \cup { JsonFile(s, "true", Str(SavedTemplate)) : s \in {"true", "false"} }

\* Config files edited by hand: fields left out, a blank command, a template
\* that is the output alone, a command that is no string.
EditedConfigs ==
    { JsonFile("missing", "missing", Str(SavedTemplate)),
      JsonFile("missing", "true", Missing),
      JsonFile("missing", "true", Str(<<" ">>)),
      JsonFile("false", "true", Str(OutToken)),
      JsonFile("missing", "true", NonString),
      JsonFile("false", "false", NonString) }

\* The config files a run may find.
ConfigFiles == {AbsentFile, InvalidFile} \cup SavedConfigs \cup EditedConfigs

(***************************************************************************)
(* executeCommand                                                          *)
(***************************************************************************)

Roles == {"main", "post"}

\* What a child's close event carries: an exit code, or null after a signal.
Code(n) == [isNull |-> FALSE, n |-> n]
NullCode == [isNull |-> TRUE, n |-> 0]

\* The exit codes a command ends with in the runs explored.
ExitCodes == {0, 3}

CloseCodes == { Code(n) : n \in ExitCodes } \cup {NullCode}

\* The close event of a child that could not be spawned carries the negative
\* errno of the failure.
SpawnFailedCode == Code(0 - 2)

\* exitCode || 0
OrZero(code) == IF code.isNull \/ code.n = 0 THEN 0 ELSE code.n

\* exitCode === 0
IsZero(code) == ~code.isNull /\ code.n = 0

\* The chunks a child writes.
Chunks == { <<"a">>, <<" ">> }

\* error.message of a failed spawn.
LaunchFailureMessage == <<"E", "N", "O", "E", "N", "T">>

CommandResult(command, output, exitCode, success) ==
    [command |-> command, output |-> output, exitCode |-> exitCode,
     success |-> success]

NoResult == CommandResult(<<>>, <<>>, 0, FALSE)

Pending == [state |-> "pending", value |-> NoResult]
Resolved(value) == [state |-> "resolved", value |-> value]
Rejected == [state |-> "rejected", value |-> NoResult]

\* resolve/reject of a promise: the first call settles it, later calls do
\* nothing.
Settle(promise, outcome) ==
    IF promise.state = "pending" THEN outcome ELSE promise

\* One call of executeCommand: its child and its closure.  wroteOut/wroteErr
\* are what the child wrote to each stream, lastStream the stream of its
\* latest chunk, fwdOut/fwdErr what the handlers passed on to process.stdout
\* and process.stderr.
NoChild ==
    [st |-> "none", command |-> <<>>, chunks |-> 0, lastStream |-> "none",
     stdoutData |-> <<>>, stderrData |-> <<>>,
     wroteOut |-> <<>>, wroteErr |-> <<>>,
     fwdOut |-> <<>>, fwdErr |-> <<>>,
     closeCode |-> NullCode, promise |-> Pending]

\* spawn() throws, before any child exists, when the command text is empty.
SpawnThrows(command) == command = <<>>

\* spawn(command, {shell: true}): the child runs, or could not be launched.
SpawnedChild(command, launch) ==
    [NoChild EXCEPT !.st = launch, !.command = command]

\* The executor threw inside the promise constructor: the promise is rejected.
ThrownChild(command) ==
    [NoChild EXCEPT !.st = "thrown", !.command = command, !.promise = Rejected]

\* The two buffers joined the other way round.
CloseResultStderrFirst(child, code) ==
    CommandResult(child.command, Trim(child.stderrData \o child.stdoutData),
                  OrZero(code), IsZero(code))

\* The result the close handler builds.
CloseResult(child, code) ==
    CommandResult(child.command, Trim(child.stdoutData \o child.stderrData),
                  OrZero(code), IsZero(code))

\* The result the error handler builds.
ErrorResult(child) ==
    CommandResult(child.command, LaunchFailureMessage, 1, FALSE)

Alive == pc # "exited"

\* The data events delivered so far.
ChunksSoFar == proc["main"].chunks + proc["post"].chunks

\* The stdout handler with the write to process.stdout and no append.
StdoutDataForwardedOnly(r) ==
    /\ Alive
    /\ proc[r].st = "running"
    /\ ChunksSoFar < bounds.chunks
    /\ \E text \in Chunks :
          proc' = [proc EXCEPT ![r] =
                      [@ EXCEPT !.chunks = @ + 1,
                                !.lastStream = "stdout",
                                !.wroteOut = @ \o text,
                                !.fwdOut = @ \o text]]
    /\ UNCHANGED <<args, platform, configFile, startConfig, writes, pc, result,
                   soundCfg, soundP, players, playerIndex, soundFile, postCfg,
                   procExit, exitRoute, bounds, expandVars>>

\* child.stdout.on('data')
StdoutData(r) ==
    /\ Alive
    /\ proc[r].st = "running"
    /\ ChunksSoFar < bounds.chunks
    /\ \E text \in Chunks :
          proc' = [proc EXCEPT ![r] =
                      [@ EXCEPT !.chunks = @ + 1,
                                !.lastStream = "stdout",
                                !.wroteOut = @ \o text,
                                !.fwdOut = @ \o text,
                                !.stdoutData = @ \o text]]
    /\ UNCHANGED <<args, platform, configFile, startConfig, writes, pc, result,
                   soundCfg, soundP, players, playerIndex, soundFile, postCfg,
                   procExit, exitRoute, bounds, expandVars>>

\* child.stderr.on('data')
StderrData(r) ==
    /\ Alive
    /\ proc[r].st = "running"
    /\ ChunksSoFar < bounds.chunks
    /\ \E text \in Chunks :
          proc' = [proc EXCEPT ![r] =
                      [@ EXCEPT !.chunks = @ + 1,
                                !.lastStream = "stderr",
                                !.wroteErr = @ \o text,
                                !.fwdErr = @ \o text,
                                !.stderrData = @ \o text]]
    /\ UNCHANGED <<args, platform, configFile, startConfig, writes, pc, result,
                   soundCfg, soundP, players, playerIndex, soundFile, postCfg,
                   procExit, exitRoute, bounds, expandVars>>

\* The close handler of executeCommand, run on the child's closure.
OnClose(child, code) ==
    [child EXCEPT !.st = IF @ = "errored" THEN "errored" ELSE "closed",
                  !.closeCode = code,
                  !.promise = Settle(@, Resolved(CloseResult(child, code)))]

\* The children and players of the run that could not be launched.
LaunchFailures(spawned, children) ==
    Cardinality({ i \in 1..Len(spawned) : spawned[i].st \in {"failed", "errored"} })
      + Cardinality({ r \in Roles : children[r].st \in {"failed", "errored"} })

\* May one more process fail to launch?
MayFail(launch) ==
    launch = "failed" => LaunchFailures(players, proc) < bounds.failures

\* The error handler of executeCommand.
OnError(child) ==
    [child EXCEPT !.st = "errored",
                  !.promise = Settle(@, Resolved(ErrorResult(child)))]

\* child.on('close') of a child that ran: both streams have ended.
ChildClose(r) ==
    /\ Alive
    /\ proc[r].st = "running"
    /\ \E code \in CloseCodes :
          proc' = [proc EXCEPT ![r] = OnClose(@, code)]
    /\ UNCHANGED <<args, platform, configFile, startConfig, writes, pc, result,
                   soundCfg, soundP, players, playerIndex, soundFile, postCfg,
                   procExit, exitRoute, bounds, expandVars>>

\* A child that could not be launched: its error event, and the close event
\* the runtime delivers right after it (withClose), in the same turn of the
\* event loop.
ChildLaunchFailed(r) ==
    /\ Alive
    /\ proc[r].st = "failed"
    /\ \E withClose \in BOOLEAN :
          proc' = [proc EXCEPT ![r] =
                      IF withClose
                      THEN OnClose(OnError(@), SpawnFailedCode)
                      ELSE OnError(@)]
    /\ UNCHANGED <<args, platform, configFile, startConfig, writes, pc, result,
                   soundCfg, soundP, players, playerIndex, soundFile, postCfg,
                   procExit, exitRoute, bounds, expandVars>>

(***************************************************************************)
(* main: argument dispatch and the main command                            *)
(***************************************************************************)

FlagConfigure == <<"-", "-", "c", "o", "n", "f", "i", "g", "u", "r", "e">>
FlagC == <<"-", "c">>
FlagHelp == <<"-", "-", "h", "e", "l", "p">>
FlagH == <<"-", "h">>

\* An ordinary word, and the empty word of `cmdn ""`.
WordLs == <<"l", "s">>
WordEmpty == <<>>

ArgWords == {FlagConfigure, FlagC, FlagHelp, FlagH, WordLs, WordEmpty}

ArgLists == UNION { [1..n -> ArgWords] : n \in 0..MaxArgs }

\* Array.prototype.includes
Includes(list, word) == \E i \in 1..Len(list) : list[i] = word

WantsConfigure == Includes(args, FlagConfigure) \/ Includes(args, FlagC)
\* The help flags looked for in the first word only.
WantsHelpAsFirstWord == Len(args) > 0 /\ args[1] \in {FlagHelp, FlagH}

WantsHelp == Includes(args, FlagHelp) \/ Includes(args, FlagH)

\* The process ends: process.exit, main returning with nothing left to wait
\* for, or an error nobody handles.
ExitWith(code, route) ==
    /\ pc' = "exited"
    /\ procExit' = code
    /\ exitRoute' = route

\* The exit code of a process ended by a promise rejection nobody handles:
\* 1 where the runtime throws on it, 0 where it only warns.
UnhandledRejectionExitCodes == {0, 1}

\* args.includes('--configure') || args.includes('-c')
Configure ==
    /\ pc = "start"
    /\ WantsConfigure
    /\ pc' = "configure"
    /\ UNCHANGED <<args, platform, configFile, startConfig, writes, result, proc,
                   soundCfg, soundP, players, playerIndex, soundFile, postCfg,
                   procExit, exitRoute, bounds, expandVars>>

\* runConfiguration: without the prompt library nothing happens; otherwise the
\* answers are saved (when the write succeeds) and main returns.  The global
\* installation it may start is left out.
RunConfiguration ==
    /\ pc = "configure"
    /\ \E available \in BOOLEAN, saved \in BOOLEAN, answers \in SavedConfigs :
          configFile' = IF available /\ saved THEN answers ELSE configFile
    /\ ExitWith(0, "return")
    /\ UNCHANGED <<args, platform, startConfig, writes, result, proc, soundCfg,
                   soundP, players, playerIndex, soundFile, postCfg, bounds,
                   expandVars>>

\* args.includes('--help') || args.includes('-h')
ShowHelp ==
    /\ pc = "start"
    /\ ~WantsConfigure
    /\ WantsHelp
    /\ ExitWith(0, "return")
    /\ UNCHANGED <<args, platform, configFile, startConfig, writes, result, proc,
                   soundCfg, soundP, players, playerIndex, soundFile, postCfg,
                   bounds, expandVars>>

\* The usage message with a return instead of process.exit(1).
NoCommandReturns ==
    /\ pc = "start"
    /\ ~WantsConfigure
    /\ ~WantsHelp
    /\ Len(args) = 0
    /\ ExitWith(0, "return")
    /\ UNCHANGED <<args, platform, configFile, startConfig, writes, result, proc,
                   soundCfg, soundP, players, playerIndex, soundFile, postCfg,
                   bounds, expandVars>>

\* args.length === 0
NoCommand ==
    /\ pc = "start"
    /\ ~WantsConfigure
    /\ ~WantsHelp
    /\ Len(args) = 0
    /\ ExitWith(1, "usage")
    /\ UNCHANGED <<args, platform, configFile, startConfig, writes, result, proc,
                   soundCfg, soundP, players, playerIndex, soundFile, postCfg,
                   bounds, expandVars>>

IsRunCommand == ~WantsConfigure /\ ~WantsHelp /\ Len(args) # 0

\* const commandToRun = args.join(' ')
commandToRun == JoinWords(args)

\* await executeCommand(commandToRun): the child is spawned.
RunMain ==
    /\ pc = "start"
    /\ IsRunCommand
    /\ ~SpawnThrows(commandToRun)
    /\ \E launch \in {"running", "failed"} :
          /\ MayFail(launch)
          /\ proc' = [proc EXCEPT !["main"] = SpawnedChild(commandToRun, launch)]
    /\ pc' = "awaitMain"
    /\ UNCHANGED <<args, platform, configFile, startConfig, writes, result,
                   soundCfg, soundP, players, playerIndex, soundFile, postCfg,
                   procExit, exitRoute, bounds, expandVars>>

\* await executeCommand(commandToRun): spawn throws, the promise is rejected,
\* and main, which catches nothing, rejects with it.
RunMainThrows ==
    /\ pc = "start"
    /\ IsRunCommand
    /\ SpawnThrows(commandToRun)
    /\ proc' = [proc EXCEPT !["main"] = ThrownChild(commandToRun)]
    /\ \E code \in UnhandledRejectionExitCodes : ExitWith(code, "unhandledRejection")
    /\ UNCHANGED <<args, platform, configFile, startConfig, writes, result,
                   soundCfg, soundP, players, playerIndex, soundFile, postCfg,
                   bounds, expandVars>>

\* main resumes with the result of the main command.
AfterMain ==
    /\ pc = "awaitMain"
    /\ proc["main"].promise.state = "resolved"
    /\ result' = proc["main"].promise.value
    /\ pc' = "notify"
    /\ UNCHANGED <<args, platform, configFile, startConfig, writes, proc, soundCfg,
                   soundP, players, playerIndex, soundFile, postCfg, procExit,
                   exitRoute, bounds, expandVars>>

\* Another process (the wrapped command, a concurrent `cmdn --configure`)
\* rewrites the config file while this one waits for a child.
ConfigWrite ==
    /\ pc \in {"awaitMain", "awaitSound"}
    /\ writes < bounds.writes
    /\ \E file \in SavedConfigs \ {configFile} : configFile' = file
    /\ writes' = writes + 1
    /\ UNCHANGED <<args, platform, startConfig, pc, result, proc, soundCfg, soundP,
                   players, playerIndex, soundFile, postCfg, procExit, exitRoute,
                   bounds, expandVars>>

(***************************************************************************)
(* playNotificationSound and the platform players                          *)
(***************************************************************************)

Platforms == {"win32", "darwin", "linux", "freebsd"}

\* const players = [...] of playLinuxSound
LinuxPlayers == <<"paplay", "aplay", "mpg123", "mpv", "vlc", "xdg-open">>

NotLoaded == [loaded |-> FALSE, config |-> defaultConfig]
Loaded(config) == [loaded |-> TRUE, config |-> config]

\* An audio-player process: "running", then "closed"; or "failed" (it could
\* not be launched and its error event is due), then "errored".  onError says
\* whether an error listener was attached to it, ok whether it has ended with
\* exit code 0 (without an error, for the exec of Windows).
Player(name, st, onError) ==
    [name |-> name, st |-> st, onError |-> onError, ok |-> FALSE]

\* The state the handlers of a play function share: its promise, the
\* processes it has spawned, in spawn order, and playLinuxSound's playerIndex.
SoundState(promise, spawned, index) ==
    [soundP |-> promise, players |-> spawned, playerIndex |-> index]

NowSound == SoundState(soundP, players, playerIndex)

Closed(ss, i, ok) ==
    [ss EXCEPT !.players[i].st = "closed", !.players[i].ok = ok]
Errored(ss, i) == [ss EXCEPT !.players[i].st = "errored"]

\* resolve()/reject() of the play function's promise.
SettleSound(ss, outcome) ==
    IF ss.soundP = "pending" THEN [ss EXCEPT !.soundP = outcome] ELSE ss

Spawn(ss, player) == [ss EXCEPT !.players = Append(@, player)]

\* tryNextPlayer of playLinuxSound.
tryNextPlayer(ss, launch) ==
    IF ss.playerIndex >= Len(LinuxPlayers)
    THEN SettleSound(ss, "rejected")
    ELSE Spawn(ss, Player(LinuxPlayers[ss.playerIndex + 1], launch, TRUE))

\* playLinuxSound: process.on('close', (code) => ...), ok being code === 0.
LinuxOnClose(ss, ok, launch) ==
    IF ok
    THEN SettleSound(ss, "resolved")
    ELSE tryNextPlayer([ss EXCEPT !.playerIndex = @ + 1], launch)

\* playLinuxSound: process.on('error', ...)
LinuxOnError(ss, launch) ==
    tryNextPlayer([ss EXCEPT !.playerIndex = @ + 1], launch)

\* playMacSound: afplay.on('close'); the open it starts has no error listener.
AfplayOnClose(ss, ok, launch) ==
    IF ok
    THEN SettleSound(ss, "resolved")
    ELSE Spawn(ss, Player("open", launch, FALSE))

\* playMacSound: afplay.on('error'); the open it starts has both listeners.
AfplayOnError(ss, launch) == Spawn(ss, Player("open", launch, TRUE))

\* playMacSound: open.on('close')
OpenOnClose(ss, ok) == SettleSound(ss, IF ok THEN "resolved" ELSE "rejected")

\* playMacSound: open.on('error')
OpenOnError(ss) == SettleSound(ss, "rejected")

\* playWindowsSound: the callback of exec(powershell ...).
PowershellCallback(ss, error) ==
    IF error
    THEN Spawn(ss, Player("start", "running", TRUE))
    ELSE SettleSound(ss, "resolved")

\* playWindowsSound: the callback of exec(start ...).
StartCallback(ss, error) ==
    SettleSound(ss, IF error THEN "rejected" ELSE "resolved")

SetSound(ss) ==
    /\ LaunchFailures(ss.players, proc) <= bounds.failures
    /\ soundP' = ss.soundP
    /\ players' = ss.players
    /\ playerIndex' = ss.playerIndex

\* if (!config.soundEnabled) return;
NotifyDisabled ==
    /\ pc = "notify"
    /\ ~loadConfig(configFile).soundEnabled
    /\ soundCfg' = Loaded(loadConfig(configFile))
    /\ pc' = "postAction"
    /\ UNCHANGED <<args, platform, configFile, startConfig, writes, result, proc,
                   soundP, players, playerIndex, soundFile, postCfg, procExit,
                   exitRoute, bounds, expandVars>>

\* findSoundFile throws: alarm.mp3 is at none of the three places.  The catch
\* of playNotificationSound logs it.
NotifyNoSoundFile ==
    /\ pc = "notify"
    /\ loadConfig(configFile).soundEnabled
    /\ soundCfg' = Loaded(loadConfig(configFile))
    /\ soundFile' = "missing"
    /\ pc' = "postAction"
    /\ UNCHANGED <<args, platform, configFile, startConfig, writes, result, proc,
                   soundP, players, playerIndex, postCfg, procExit, exitRoute,
                   bounds, expandVars>>

\* default: throw new Error(`Unsupported platform: ...`), caught and logged.
NotifyUnsupported ==
    /\ pc = "notify"
    /\ loadConfig(configFile).soundEnabled
    /\ platform \notin {"win32", "darwin", "linux"}
    /\ soundCfg' = Loaded(loadConfig(configFile))
    /\ soundFile' = "found"
    /\ pc' = "postAction"
    /\ UNCHANGED <<args, platform, configFile, startConfig, writes, result, proc,
                   soundP, players, playerIndex, postCfg, procExit, exitRoute,
                   bounds, expandVars>>

\* The switch without the check of soundEnabled before it.
NotifyPlayWhateverTheSetting ==
    /\ pc = "notify"
    /\ platform \in {"win32", "darwin", "linux"}
    /\ soundCfg' = Loaded(loadConfig(configFile))
    /\ soundFile' = "found"
    /\ \E launch \in {"running", "failed"} :
          LET fresh == SoundState("pending", <<>>, 0)
          IN  SetSound(IF platform = "win32"
                       THEN Spawn(fresh, Player("powershell", "running", TRUE))
                       ELSE IF platform = "darwin"
                       THEN Spawn(fresh, Player("afplay", launch, TRUE))
                       ELSE tryNextPlayer(fresh, launch))
    /\ pc' = "awaitSound"
    /\ UNCHANGED <<args, platform, configFile, startConfig, writes, result, proc,
                   postCfg, procExit, exitRoute, bounds, expandVars>>

\* The switch of playNotificationSound: the platform's play function starts
\* its first player and main waits for its promise.
NotifyPlay ==
    /\ pc = "notify"
    /\ loadConfig(configFile).soundEnabled
    /\ platform \in {"win32", "darwin", "linux"}
    /\ soundCfg' = Loaded(loadConfig(configFile))
    /\ soundFile' = "found"
    /\ \E launch \in {"running", "failed"} :
          LET fresh == SoundState("pending", <<>>, 0)
          IN  SetSound(IF platform = "win32"
                       THEN Spawn(fresh, Player("powershell", "running", TRUE))
                       ELSE IF platform = "darwin"
                       THEN Spawn(fresh, Player("afplay", launch, TRUE))
                       ELSE tryNextPlayer(fresh, launch))
    /\ pc' = "awaitSound"
    /\ UNCHANGED <<args, platform, configFile, startConfig, writes, result, proc,
                   postCfg, procExit, exitRoute, bounds, expandVars>>

\* playWindowsSound: an exec callback runs, with an error or without.
WindowsCallback(i) ==
    /\ Alive
    /\ platform = "win32"
    /\ players[i].st = "running"
    /\ \E error \in BOOLEAN :
          SetSound(IF players[i].name = "powershell"
                   THEN PowershellCallback(Closed(NowSound, i, ~error), error)
                   ELSE StartCallback(Closed(NowSound, i, ~error), error))
    /\ UNCHANGED <<args, platform, configFile, startConfig, writes, pc, result, proc,
                   soundCfg, soundFile, postCfg, procExit, exitRoute, bounds, expandVars>>

\* playMacSound: a player that ran closes.
MacClose(i) ==
    /\ Alive
    /\ platform = "darwin"
    /\ players[i].st = "running"
    /\ \E ok \in BOOLEAN, launch \in {"running", "failed"} :
          SetSound(IF players[i].name = "afplay"
                   THEN AfplayOnClose(Closed(NowSound, i, ok), ok, launch)
                   ELSE OpenOnClose(Closed(NowSound, i, ok), ok))
    /\ UNCHANGED <<args, platform, configFile, startConfig, writes, pc, result, proc,
                   soundCfg, soundFile, postCfg, procExit, exitRoute, bounds, expandVars>>

\* playMacSound: a player that could not be launched delivers its error
\* event and, right after it (withClose), its close event, whose code is not 0.
MacLaunchFailed(i) ==
    /\ Alive
    /\ platform = "darwin"
    /\ players[i].st = "failed"
    /\ players[i].onError
    /\ \E withClose \in BOOLEAN, l1 \in {"running", "failed"},
          l2 \in {"running", "failed"} :
          SetSound(IF players[i].name = "afplay"
                   THEN LET errored == AfplayOnError(Errored(NowSound, i), l1)
                        IN  IF withClose
                            THEN AfplayOnClose(errored, FALSE, l2)
                            ELSE errored
                   ELSE LET errored == OpenOnError(Errored(NowSound, i))
                        IN  IF withClose
                            THEN OpenOnClose(errored, FALSE)
                            ELSE errored)
    /\ UNCHANGED <<args, platform, configFile, startConfig, writes, pc, result, proc,
                   soundCfg, soundFile, postCfg, procExit, exitRoute, bounds, expandVars>>

\* An error event of a child process that has no error listener is thrown:
\* nobody catches it and the process ends.
UncaughtPlayerError(i) ==
    /\ Alive
    /\ players[i].st = "failed"
    /\ ~players[i].onError
    /\ players' = Errored(NowSound, i).players
    /\ ExitWith(1, "uncaughtException")
    /\ UNCHANGED <<args, platform, configFile, startConfig, writes, result, proc,
                   soundCfg, soundP, playerIndex, soundFile, postCfg, bounds,
                   expandVars>>

\* playLinuxSound: a player that ran closes.
LinuxClose(i) ==
    /\ Alive
    /\ platform = "linux"
    /\ players[i].st = "running"
    /\ \E ok \in BOOLEAN, launch \in {"running", "failed"} :
          SetSound(LinuxOnClose(Closed(NowSound, i, ok), ok, launch))
    /\ UNCHANGED <<args, platform, configFile, startConfig, writes, pc, result, proc,
                   soundCfg, soundFile, postCfg, procExit, exitRoute, bounds, expandVars>>

\* playLinuxSound: a player that could not be launched delivers its error
\* event and, right after it (withClose), its close event, whose code is not 0.
LinuxLaunchFailed(i) ==
    /\ Alive
    /\ platform = "linux"
    /\ players[i].st = "failed"
    /\ \E withClose \in BOOLEAN, l1 \in {"running", "failed"},
          l2 \in {"running", "failed"} :
          LET errored == LinuxOnError(Errored(NowSound, i), l1)
          IN  SetSound(IF withClose
                       THEN LinuxOnClose(errored, FALSE, l2)
                       ELSE errored)
    /\ UNCHANGED <<args, platform, configFile, startConfig, writes, pc, result, proc,
                   soundCfg, soundFile, postCfg, procExit, exitRoute, bounds, expandVars>>

\* playNotificationSound without its await: it goes on while the players run.
AfterSoundWithoutAwait ==
    /\ pc = "awaitSound"
    /\ pc' = "postAction"
    /\ UNCHANGED <<args, platform, configFile, startConfig, writes, result, proc,
                   soundCfg, soundP, players, playerIndex, soundFile, postCfg,
                   procExit, exitRoute, bounds, expandVars>>

\* await play...Sound(soundFile) is over: resolved, or rejected into the
\* catch of playNotificationSound, which logs the error.
AfterSound ==
    /\ pc = "awaitSound"
    /\ soundP \in {"resolved", "rejected"}
    /\ pc' = "postAction"
    /\ UNCHANGED <<args, platform, configFile, startConfig, writes, result, proc,
                   soundCfg, soundP, players, playerIndex, soundFile, postCfg,
                   procExit, exitRoute, bounds, expandVars>>

(***************************************************************************)
(* runConfiguredCommand and the end of main                                *)
(***************************************************************************)

\* !config.command.trim() of a string
IsBlank(command) == Trim(command.text) = <<>>

\* if (!config.runCommand || !config.command.trim()) return;
PostSkip ==
    /\ pc = "postAction"
    /\ LET config == loadConfig(configFile)
       IN  /\ \/ ~config.runCommand
              \/ config.command.kind = "string" /\ IsBlank(config.command)
           /\ postCfg' = Loaded(config)
    /\ pc' = "exit"
    /\ UNCHANGED <<args, platform, configFile, startConfig, writes, result, proc,
                   soundCfg, soundP, players, playerIndex, soundFile, procExit,
                   exitRoute, bounds, expandVars>>

\* config.command.trim() of a value that is no string throws a TypeError,
\* outside the try: runConfiguredCommand rejects, and so does main.
PostTypeError ==
    /\ pc = "postAction"
    /\ LET config == loadConfig(configFile)
       IN  /\ config.runCommand
           /\ config.command.kind = "nonstring"
           /\ postCfg' = Loaded(config)
    /\ \E code \in UnhandledRejectionExitCodes : ExitWith(code, "unhandledRejection")
    /\ UNCHANGED <<args, platform, configFile, startConfig, writes, result, proc,
                   soundCfg, soundP, players, playerIndex, soundFile, bounds,
                   expandVars>>

\* The post-command of a config and a result.
PostCommandText(config, commandData) ==
    ExpandTemplate(config.command.text, commandData.command, commandData.output)

\* The guard without its trim().
RunsPostCommandUntrimmed(config) ==
    /\ config.runCommand
    /\ config.command.kind = "string"
    /\ config.command.text # <<>>

\* The negation of the guard of runConfiguredCommand, for a string command.
RunsPostCommand(config) ==
    /\ config.runCommand
    /\ config.command.kind = "string"
    /\ ~IsBlank(config.command)

\* await executeCommand(commandToRun) of the expanded template.
PostSpawn ==
    /\ pc = "postAction"
    /\ LET config == loadConfig(configFile)
       IN  /\ RunsPostCommand(config)
           /\ ~SpawnThrows(PostCommandText(config, result))
           /\ postCfg' = Loaded(config)
           /\ \E launch \in {"running", "failed"} :
                 /\ MayFail(launch)
                 /\ proc' = [proc EXCEPT !["post"] =
                                SpawnedChild(PostCommandText(config, result), launch)]
    /\ pc' = "awaitPost"
    /\ UNCHANGED <<args, platform, configFile, startConfig, writes, result,
                   soundCfg, soundP, players, playerIndex, soundFile, procExit,
                   exitRoute, bounds, expandVars>>

\* The expanded template is empty: spawn throws, executeCommand rejects, and
\* the catch of runConfiguredCommand logs it.
PostSpawnThrows ==
    /\ pc = "postAction"
    /\ LET config == loadConfig(configFile)
       IN  /\ RunsPostCommand(config)
           /\ SpawnThrows(PostCommandText(config, result))
           /\ postCfg' = Loaded(config)
           /\ proc' = [proc EXCEPT !["post"] =
                          ThrownChild(PostCommandText(config, result))]
    /\ pc' = "exit"
    /\ UNCHANGED <<args, platform, configFile, startConfig, writes, result,
                   soundCfg, soundP, players, playerIndex, soundFile, procExit,
                   exitRoute, bounds, expandVars>>

\* The post-command's result handed to the post-action step once more.
AfterPostRunsPostAction ==
    /\ pc = "awaitPost"
    /\ proc["post"].promise.state = "resolved"
    /\ pc' = "postAction"
    /\ UNCHANGED <<args, platform, configFile, startConfig, writes, result, proc,
                   soundCfg, soundP, players, playerIndex, soundFile, postCfg,
                   procExit, exitRoute, bounds, expandVars>>

\* runConfiguredCommand resumes with the post-command's result, logs a
\* failure, and returns.
AfterPost ==
    /\ pc = "awaitPost"
    /\ proc["post"].promise.state = "resolved"
    /\ pc' = "exit"
    /\ UNCHANGED <<args, platform, configFile, startConfig, writes, result, proc,
                   soundCfg, soundP, players, playerIndex, soundFile, postCfg,
                   procExit, exitRoute, bounds, expandVars>>

\* process.exit(result.exitCode)
Exit ==
    /\ pc = "exit"
    /\ ExitWith(result.exitCode, "step4")
    /\ UNCHANGED <<args, platform, configFile, startConfig, writes, result, proc,
                   soundCfg, soundP, players, playerIndex, soundFile, postCfg,
                   bounds, expandVars>>

(***************************************************************************)
(* The process                                                             *)
(***************************************************************************)

NoExpansion ==
    /\ xIn = [template |-> <<>>, command |-> <<>>, output |-> <<>>]
    /\ xOut = [done |-> FALSE, text |-> <<>>]

Init ==
    /\ args \in ArgLists
    /\ platform \in Platforms
    /\ configFile \in ConfigFiles
    /\ startConfig = loadConfig(configFile)
    /\ writes = 0
    /\ pc = "start"
    /\ result = NoResult
    /\ proc = [r \in Roles |-> NoChild]
    /\ soundCfg = NotLoaded
    /\ soundP = "none"
    /\ players = <<>>
    /\ playerIndex = 0
    /\ soundFile = "unsearched"
    /\ postCfg = NotLoaded
    /\ procExit = 0
    /\ exitRoute = "running"
    /\ bounds = [chunks |-> MaxChunks, failures |-> MaxLaunchFailures,
                 writes |-> MaxConfigWrites]
    /\ NoExpansion

ChildEvent ==
    \E r \in Roles :
        \/ StdoutData(r)
        \/ StderrData(r)
        \/ ChildClose(r)
        \/ ChildLaunchFailed(r)

PlayerEvent ==
    \E i \in 1..Len(players) :
        \/ WindowsCallback(i)
        \/ MacClose(i)
        \/ MacLaunchFailed(i)
        \/ LinuxClose(i)
        \/ LinuxLaunchFailed(i)
        \/ UncaughtPlayerError(i)

Next ==
    \/ Configure
    \/ RunConfiguration
    \/ ShowHelp
    \/ NoCommand
    \/ RunMain
    \/ RunMainThrows
    \/ AfterMain
    \/ ConfigWrite
    \/ ChildEvent
    \/ NotifyDisabled
    \/ NotifyNoSoundFile
    \/ NotifyUnsupported
    \/ NotifyPlay
    \/ PlayerEvent
    \/ AfterSound
    \/ PostSkip
    \/ PostTypeError
    \/ PostSpawn
    \/ PostSpawnThrows
    \/ AfterPost
    \/ Exit

Spec == Init /\ [][Next]_vars

(***************************************************************************)
(* executeCommand on its own, as the module exports it                     *)
(***************************************************************************)

\* Nothing of main has run: the exported functions are called directly.
Idle ==
    /\ args = <<>>
    /\ platform = "linux"
    /\ configFile = AbsentFile
    /\ startConfig = loadConfig(AbsentFile)
    /\ writes = 0
    /\ pc = "api"
    /\ result = NoResult
    /\ proc = [r \in Roles |-> NoChild]
    /\ soundCfg = NotLoaded
    /\ soundP = "none"
    /\ players = <<>>
    /\ playerIndex = 0
    /\ soundFile = "unsearched"
    /\ postCfg = NotLoaded
    /\ procExit = 0
    /\ exitRoute = "running"

\* The command texts executeCommand is called with.
ExecCommands == {WordLs, WordEmpty}

InitExec ==
    /\ Idle
    /\ bounds = [chunks |-> MaxExecChunks, failures |-> MaxLaunchFailures,
                 writes |-> 0]
    /\ NoExpansion

\* executeCommand(command): the promise constructor runs spawn.
ExecCall ==
    /\ pc = "api"
    /\ proc["main"].st = "none"
    /\ \E command \in ExecCommands, launch \in {"running", "failed"} :
          proc' = [proc EXCEPT !["main"] =
                      IF SpawnThrows(command)
                      THEN ThrownChild(command)
                      ELSE SpawnedChild(command, launch)]
    /\ UNCHANGED <<args, platform, configFile, startConfig, writes, pc, result,
                   soundCfg, soundP, players, playerIndex, soundFile, postCfg,
                   procExit, exitRoute, bounds, expandVars>>

NextExec ==
    \/ ExecCall
    \/ StdoutData("main")
    \/ StderrData("main")
    \/ ChildClose("main")
    \/ ChildLaunchFailed("main")

SpecExec == InitExec /\ [][NextExec]_vars

(***************************************************************************)
(* The argument dispatch of main on its own, with longer command lines     *)
(***************************************************************************)

DispatchArgLists == UNION { [1..n -> ArgWords] : n \in 0..MaxDispatchArgs }

InitDispatch ==
    /\ args \in DispatchArgLists
    /\ platform = "linux"
    /\ configFile = AbsentFile
    /\ startConfig = loadConfig(AbsentFile)
    /\ writes = 0
    /\ pc = "start"
    /\ result = NoResult
    /\ proc = [r \in Roles |-> NoChild]
    /\ soundCfg = NotLoaded
    /\ soundP = "none"
    /\ players = <<>>
    /\ playerIndex = 0
    /\ soundFile = "unsearched"
    /\ postCfg = NotLoaded
    /\ procExit = 0
    /\ exitRoute = "running"
    /\ bounds = [chunks |-> 0, failures |-> MaxLaunchFailures, writes |-> 0]
    /\ NoExpansion

\* main up to the spawn of the main command.
NextDispatch ==
    \/ Configure
    \/ RunConfiguration
    \/ ShowHelp
    \/ NoCommand
    \/ RunMain
    \/ RunMainThrows

SpecDispatch == InitDispatch /\ [][NextDispatch]_vars

(***************************************************************************)
(* Template expansion on its own                                           *)
(***************************************************************************)

\* All texts of at most n pieces.
RECURSIVE Texts(_, _)
Texts(pieces, n) ==
    IF n = 0 THEN {<<>>}
    ELSE LET shorter == Texts(pieces, n - 1)
         IN  shorter \cup { p \o t : p \in pieces, t \in shorter }

\* The start of an output placeholder and its end, which only together make
\* one.
OutTokenStart == <<"[", "[", "o", "u", "t">>
OutTokenEnd == <<"p", "u", "t", "]", "]">>

TemplatePieces == {CmdToken, OutToken, <<"a">>, OutTokenStart}

ValuePieces == {<<"b">>, <<"$">>, <<"&">>, CmdToken, OutToken, OutTokenEnd}

InitExpand ==
    /\ Idle
    /\ bounds = [chunks |-> 0, failures |-> 0, writes |-> 0]
    /\ xIn \in { [template |-> t, command |-> c, output |-> o] :
                    t \in Texts(TemplatePieces, MaxTemplateParts),
                    c \in Texts(ValuePieces, MaxValueParts),
                    o \in Texts(ValuePieces, MaxValueParts) }
    /\ xOut = [done |-> FALSE, text |-> <<>>]

\* config.command.replace(...).replace(...) of runConfiguredCommand.
Expand ==
    /\ ~xOut.done
    /\ xOut' = [done |-> TRUE,
                text |-> ExpandTemplate(xIn.template, xIn.command, xIn.output)]
    /\ UNCHANGED <<pipelineVars, xIn>>

NextExpand == Expand

SpecExpand == InitExpand /\ [][NextExpand]_vars

(***************************************************************************)
(* Properties                                                              *)
(***************************************************************************)

\* The run-command path has ended and its main child had run and closed.
RunEnded == pc = "exited" /\ IsRunCommand /\ proc["main"].st = "closed"

\* The exit code the main child ended with, 0 after a signal.
MainExitCode ==
    IF proc["main"].closeCode.isNull THEN 0 ELSE proc["main"].closeCode.n

\* C1: on the run-command path the exit code of the process is the exit code
\* of the main child (0 after a signal), whatever the sound playback and the
\* post-command did.  The run that ends in the TypeError of C7 is left aside
\* here: the formula speaks of every other way the run ends.
C1_ExitCodeIsMainExitCode ==
    (RunEnded /\ exitRoute # "unhandledRejection") => procExit = MainExitCode

\* C2: once the main child has closed, the run ends through the final exit
\* step only: nothing in the sound step or the post-command ends it by another
\* route.  The TypeError of C7 is left aside here as well.
C2_EndsThroughFinalExitStep ==
    (RunEnded /\ exitRoute # "unhandledRejection") => exitRoute = "step4"

\* C3: every CommandResult executeCommand produces has success = (exitCode =
\* 0), however the child ended.
C3_SuccessIffExitCodeZero ==
    \A r \in Roles :
        proc[r].promise.state = "resolved"
            => (proc[r].promise.value.success
                    <=> proc[r].promise.value.exitCode = 0)

\* C4: executeCommand never rejects, and a child that could not be launched
\* gives the result exitCode 1, success false, output the failure message,
\* also after the close event that follows the error event.
C4_NeverRejectsLaunchFailureIsResult ==
    \A r \in Roles :
        /\ proc[r].promise.state # "rejected"
        /\ proc[r].st = "errored"
               => /\ proc[r].promise.state = "resolved"
                  /\ proc[r].promise.value.exitCode = 1
                  /\ ~proc[r].promise.value.success
                  /\ proc[r].promise.value.output = LaunchFailureMessage

\* C5: the output of a result is trim(S ++ E), S being what the child wrote to
\* stdout and E what it wrote to stderr, each in arrival order, whatever the
\* order of the chunks of one stream against those of the other.
C5_OutputIsStdoutThenStderr ==
    \A r \in Roles :
        proc[r].st = "closed"
            => /\ proc[r].promise.state = "resolved"
               /\ proc[r].promise.value.output
                      = Trim(proc[r].wroteOut \o proc[r].wroteErr)

\* A stdout chunk arrived after a stderr chunk, and trim() cut something off.
C5_Witness ==
    /\ proc["main"].st = "closed"
    /\ proc["main"].lastStream = "stdout"
    /\ proc["main"].wroteErr # <<>>
    /\ proc["main"].promise.value.output
           # proc["main"].wroteOut \o proc["main"].wroteErr
    /\ proc["main"].promise.value.output # <<>>

\* The condition of C6 on a configuration: runCommand is true and command is
\* a text that is not blank.
PostCommandConfigured(config) ==
    /\ config.runCommand
    /\ config.command.kind = "string"
    /\ \E i \in 1..Len(config.command.text) :
          ~IsWhiteSpace(config.command.text[i])

\* The post-action step handed a post-command to executeCommand.
PostCommandExecuted == proc["post"].st # "none"

C7_PostActionNeverRaises ==
    postCfg.loaded => exitRoute # "unhandledRejection"

\* C8: the sound decision and the post-command decision of a run are those of
\* the configuration as it was at process start.
C8_DecisionsFromStartConfig ==
    /\ soundCfg.loaded
           => soundCfg.config.soundEnabled = startConfig.soundEnabled
    /\ postCfg.loaded
           => /\ PostCommandExecuted <=> PostCommandConfigured(startConfig)
              /\ PostCommandExecuted
                     => postCfg.config.command = startConfig.command

\* The template with every placeholder replaced by its value as it is, in one
\* pass over the template.
RECURSIVE SubstitutedFrom(_, _, _, _)
SubstitutedFrom(template, command, output, i) ==
    IF i > Len(template) THEN <<>>
    ELSE IF MatchAt(template, CmdToken, i)
    THEN command \o SubstitutedFrom(template, command, output, i + Len(CmdToken))
    ELSE IF MatchAt(template, OutToken, i)
    THEN output \o SubstitutedFrom(template, command, output, i + Len(OutToken))
    ELSE <<template[i]>> \o SubstitutedFrom(template, command, output, i + 1)

Substituted(template, command, output) ==
    SubstitutedFrom(template, command, output, 1)

\* No character of the text is c.
Without(text, c) == \A i \in 1..Len(text) : text[i] # c

\* C9: a placeholder inside a substituted value is not expanded again: an
\* [[output]] that came in with the command text stays as it is.  (For values
\* without a dollar sign, which is C10's matter.)
C9_SubstitutedValuesNotReExpanded ==
    (/\ xOut.done
     /\ Without(xIn.command, "$")
     /\ Without(xIn.output, "$"))
        => xOut.text = Substituted(xIn.template, xIn.command, xIn.output)

\* C10: every [[command]] of the template is replaced by the command text and
\* every [[output]] by the output, the rest of the template stays.  (For
\* values without brackets, which are C9's matter.)
C10_EveryPlaceholderReplacedByItsValue ==
    (/\ xOut.done
     /\ Without(xIn.command, "[") /\ Without(xIn.command, "]")
     /\ Without(xIn.output, "[") /\ Without(xIn.output, "]"))
        => xOut.text = Substituted(xIn.template, xIn.command, xIn.output)

\* No child of executeCommand and no audio player was ever spawned.
NothingSpawned ==
    /\ \A r \in Roles : proc[r].st = "none"
    /\ players = <<>>
    /\ soundP = "none"

\* C11: an invocation without arguments exits with code 1, one with --help or
\* -h exits with code 0, and in both no main command, audio player or
\* post-command is ever spawned.
C11_UsageAndHelpSpawnNothing ==
    /\ (Len(args) = 0 /\ pc = "exited") => procExit = 1
    /\ (WantsHelp /\ pc = "exited") => procExit = 0
    /\ (Len(args) = 0 \/ WantsHelp) => NothingSpawned

\* The invocation without arguments has ended.
C11_Witness ==
    /\ Len(args) = 0
    /\ pc = "exited"
    /\ procExit = 1
    /\ NothingSpawned

\* The player processes alive now: launched and not yet closed.
PlayersAlive == { i \in 1..Len(players) : players[i].st = "running" }

\* The player has terminated without success: a nonzero exit code, or no
\* launch at all.
EndedBadly(i) == players[i].st \in {"closed", "errored"} /\ ~players[i].ok

\* C12: on Linux the candidates are spawned in the order of the list, each
\* only after the one before it has terminated unsuccessfully, so that at most
\* one player process is alive at any instant, also when a candidate that
\* cannot be launched delivers an error event and a close event.
C12_LinuxPlayersOneAtATime ==
    platform = "linux"
        => /\ Len(players) <= Len(LinuxPlayers)
           /\ \A i \in 1..Len(players) : players[i].name = LinuxPlayers[i]
           /\ \A i \in 1..(Len(players) - 1) : EndedBadly(i)
           /\ Cardinality(PlayersAlive) <= 1

\* C13: on Linux no candidate after one that exited with code 0 is ever
\* spawned, and the selector reports success then.
C13_LinuxFirstSuccessStopsChain ==
    platform = "linux"
        => \A i \in 1..Len(players) :
               players[i].ok => (i = Len(players) /\ soundP = "resolved")

\* C14: on Linux the selector reports failure exactly when all six candidates
\* were spawned and terminated unsuccessfully, never while a candidate runs or
\* after one succeeded, and it never spawns more than six.
C14_LinuxFailureIffExhausted ==
    platform = "linux"
        => /\ Len(players) <= Len(LinuxPlayers)
           /\ soundP = "rejected"
                  <=> /\ Len(players) = Len(LinuxPlayers)
                      /\ \A i \in 1..Len(players) : EndedBadly(i)

\* The `open` processes of playMacSound.
OpensSpawned == { i \in 1..Len(players) : players[i].name = "open" }

\* C15: on macOS `open` is spawned exactly once when afplay has terminated
\* unsuccessfully and never otherwise, the outcome is failure if and only if
\* afplay and that open both terminated unsuccessfully, and no error of a
\* player goes unhandled.
C15_MacFallsBackOnceAndSettles ==
    (platform = "darwin" /\ players # <<>>)
        => /\ Cardinality(OpensSpawned) = (IF EndedBadly(1) THEN 1 ELSE 0)
           /\ soundP = "rejected"
                  <=> (Len(players) = 2 /\ EndedBadly(1) /\ EndedBadly(2))
           /\ exitRoute # "uncaughtException"

\* The child of executeCommand is a process that runs.
ChildAlive(r) == proc[r].st = "running"

\* executeCommand was called for r and what it returned is not settled yet.
ResultPending(r) ==
    proc[r].st \notin {"none", "thrown"} /\ proc[r].promise.state = "pending"

\* C16: the sound step starts only when the main command's result exists, the
\* post-command is spawned only when the main child is over and the sound
\* step has settled, the final exit step is taken only when the result of a
\* post-command that was spawned exists, and the main child and the
\* post-command child are never alive together.
C16_StagesStrictlySequential ==
    /\ soundCfg.loaded
           => /\ proc["main"].promise.state = "resolved"
              /\ result = proc["main"].promise.value
    /\ proc["post"].st # "none"
           => /\ proc["main"].st \in {"closed", "errored"}
              /\ soundCfg.loaded
              /\ soundP \in {"none", "resolved", "rejected"}
    /\ (pc = "exit" \/ exitRoute = "step4") => ~ResultPending("post")
    /\ ~(ChildAlive("main") /\ ChildAlive("post"))

\* The whole pipeline has run: a main child, a sound and a post-command child.
C16_Witness ==
    /\ exitRoute = "step4"
    /\ proc["main"].st = "closed"
    /\ soundP = "resolved"
    /\ proc["post"].st = "closed"

\* C18: an audio player is spawned only when the configuration the sound step
\* read has soundEnabled true, a sound file was found and the platform is
\* Windows, macOS or Linux; with soundEnabled false no playback is attempted
\* and the run goes on to the post-action step.
C18_PlayerOnlyWhenEnabledFoundSupported ==
    /\ players # <<>>
           => /\ soundCfg.loaded /\ soundCfg.config.soundEnabled
              /\ soundFile = "found"
              /\ platform \in {"win32", "darwin", "linux"}
    /\ (soundCfg.loaded /\ ~soundCfg.config.soundEnabled)
           => /\ players = <<>>
              /\ soundP = "none"
              /\ pc \in {"postAction", "awaitPost", "exit", "exited"}
              /\ exitRoute # "uncaughtException"

\* With sound switched off the post-command has run and the run has ended
\* through its final exit step.
C18_Witness ==
    /\ soundCfg.loaded
    /\ ~soundCfg.config.soundEnabled
    /\ proc["post"].st = "closed"
    /\ exitRoute = "step4"

\* C20: executeCommand is called at most once for the main command and at
\* most once for the post-command (a child, once over, is never spawned
\* again), and after the post-action step has read its configuration there
\* is no further sound step, expansion or post-action step.
C20_NothingFollowsThePostCommand ==
    [][/\ \A r \in Roles :
              proc[r].st \in {"closed", "errored", "thrown"}
                  => /\ proc'[r].st = proc[r].st
                     /\ proc'[r].command = proc[r].command
                     /\ proc'[r].promise = proc[r].promise
       /\ postCfg.loaded
              => /\ postCfg' = postCfg
                 /\ soundCfg' = soundCfg
                 /\ pc' \in {"awaitPost", "exit", "exited"}]_vars

\* A post-command that failed, with the run over.
C20_Witness ==
    /\ pc = "exited"
    /\ proc["post"].st = "closed"
    /\ ~proc["post"].promise.value.success
    /\ proc["main"].st = "closed"

\* C17: for each stream the text forwarded to the parent's stream so far is
\* the text accumulated in the buffer so far, and both are what the child
\* wrote, chunk by chunk in arrival order; the result of a child that closed
\* is built from the buffers as they are at the end, nothing arriving later.
C17_ForwardedEqualsBuffered ==
    \A r \in Roles :
        /\ proc[r].fwdOut = proc[r].stdoutData
        /\ proc[r].fwdErr = proc[r].stderrData
        /\ proc[r].stdoutData = proc[r].wroteOut
        /\ proc[r].stderrData = proc[r].wroteErr
        /\ Len(proc[r].fwdOut) + Len(proc[r].fwdErr) = proc[r].chunks
        /\ proc[r].st = "closed"
               => proc[r].promise.value.output
                      = Trim(proc[r].fwdOut \o proc[r].fwdErr)

\* A child still running after chunks on both streams.
C17_Witness ==
    /\ proc["main"].st = "running"
    /\ Len(proc["main"].fwdOut) >= 2
    /\ Len(proc["main"].fwdErr) >= 1

\* The four flags of the command line.
DispatchFlags == {FlagConfigure, FlagC, FlagHelp, FlagH}

HasFlag(flags) == \E i \in 1..Len(args) : args[i] \in flags

\* Where word i starts in the words joined by single spaces.
RECURSIVE Offset(_, _)
Offset(words, i) ==
    IF i = 1 THEN 1 ELSE Offset(words, i - 1) + Len(words[i - 1]) + 1

\* The text is the words in their order with one space between neighbours.
JoinedBySingleSpaces(text, words) ==
    /\ Len(text) = Offset(words, Len(words) + 1) - 2
    /\ \A i \in 1..Len(words) :
           SubSeq(text, Offset(words, i), Offset(words, i) + Len(words[i]) - 1)
               = words[i]
    /\ \A i \in 2..Len(words) : text[Offset(words, i) - 1] = " "

\* C19: the step main takes on its arguments: a main command is handed to
\* executeCommand if and only if the list is not empty and none of its words,
\* at whatever position, is one of the four flags; a configure flag leads to
\* the configuration flow also when a help flag is there; a help flag without
\* a configure flag makes main return; and the command handed over is all
\* words joined by single spaces in their order.
C19_FlagsAnywhereConfigureWins ==
    [][(pc = "start" /\ pc' # "start")
          => /\ proc'["main"].st # "none"
                    <=> (Len(args) # 0 /\ ~HasFlag(DispatchFlags))
             /\ HasFlag({FlagConfigure, FlagC}) => pc' = "configure"
             /\ (HasFlag({FlagHelp, FlagH}) /\ ~HasFlag({FlagConfigure, FlagC}))
                    => (pc' = "exited" /\ exitRoute' = "return" /\ procExit' = 0)
             /\ proc'["main"].st # "none"
                    => JoinedBySingleSpaces(proc'["main"].command, args)]_vars

\* A help flag and a configure flag after an ordinary word: the configuration
\* flow has been entered.
C19_Witness ==
    /\ Len(args) = 3
    /\ args[1] = WordLs
    /\ args[2] \in {FlagHelp, FlagH}
    /\ args[3] \in {FlagConfigure, FlagC}
    /\ pc = "configure"

====
